---- MODULE Spec2Model ----
(***************************************************************************)
(* Model of server/video-encoder.js (VideoEncoder): one capture session    *)
(* on one websocket connection, its asynchronous frame writes, and the     *)
(* chain of external processes that assembles the final video.             *)
(*                                                                         *)
(* Strings are modelled as tuples of one-character strings so that name    *)
(* derivation and path construction are computed as the code computes      *)
(* them.  A path is <<directory, file name>>.                              *)
(***************************************************************************)
EXTENDS Integers, Sequences, FiniteSets, TLC

\* ------------------------------------------------------------------ bounds
\* number of commands the client sends on the connection
MaxCmds == 3
\* length of the longest title given to safeName
MaxTitle == 32

\* --------------------------------------------------------------- constants
\* JavaScript's undefined; also stands for the falsy empty string
Undefined == <<>>
UndefinedStr == <<"u","n","d","e","f","i","n","e","d">>
NameLimit == 30
DefaultFramerate == 30
DotMp4 == <<".","m","p","4">>
DotWebm == <<".","w","e","b","m">>
DotMp3 == <<".","m","p","3">>
DotTxt == <<".","t","x","t">>
DotPng == <<".","p","n","g">>
Untitled == <<"u","n","t","i","t","l","e","d">>
EXPECTED_HEADER == "data:image/png;base64,"

\* the characters kept by safeName: [0-9a-zA-Z-.]
SafeChars ==
  {"0","1","2","3","4","5","6","7","8","9",
   "a","b","c","d","e","f","g","h","i","j","k","l","m",
   "n","o","p","q","r","s","t","u","v","w","x","y","z",
   "A","B","C","D","E","F","G","H","I","J","K","L","M",
   "N","O","P","Q","R","S","T","U","V","W","X","Y","Z",
   "-","."}

\* the id the server gave this connection, and the encoder objects
Id == <<"1">>
Self == "self"
Other == "other"

\* decimal rendering of a frame number (string concatenation of a number)
Digit(n) ==
  CASE n = 0 -> "0" [] n = 1 -> "1" [] n = 2 -> "2" [] n = 3 -> "3"
    [] n = 4 -> "4" [] n = 5 -> "5" [] n = 6 -> "6" [] n = 7 -> "7"
    [] n = 8 -> "8" [] n = 9 -> "9"

RECURSIVE NumStr(_)
NumStr(n) == IF n < 10 THEN <<Digit(n)>> ELSE NumStr(n \div 10) \o <<Digit(n % 10)>>

\* string concatenation with a possibly undefined value
Str(v) == IF v = Undefined THEN UndefinedStr ELSE v

Min(a, b) == IF a < b THEN a ELSE b

\* (mutant) the replacement without the truncation
safeName_NoTruncate(s) ==
  [i \in 1..Len(s) |-> IF s[i] \in SafeChars THEN s[i] ELSE "_"]

safeName(s) ==
  [i \in 1..Min(Len(s), NameLimit) |-> IF s[i] \in SafeChars THEN s[i] ELSE "_"]

\* path.join(dir, file)
Join(dir, file) == <<dir, file>>

FrameFile(o, n, frameNum) == Join(o.frameDir, Str(n) \o <<"-">> \o NumStr(frameNum) \o DotPng)
TsFile(dir, n) == Join(dir, <<"t","s","-">> \o Str(n) \o DotTxt)
VfrFile(dir, n) == Join(dir, <<"v","f","r","-">> \o Str(n) \o DotMp4)
CfrFile(dir, n) == Join(dir, <<"c","f","r","-">> \o Str(n) \o DotMp4)
AudioFile(dir, n) == Join(dir, Str(n) \o DotMp3)
FinalFile(dir, n) == Join(dir, <<"f","i","n","a","l","-">> \o Str(n) \o DotMp4)

\* ------------------------------------------------------------------- state
VARIABLES
  options,          \* the server options of this process
  count, name, frames, numWriting, numErrors, ended,
  framerate, extension, codec, connected, ffmpegArguments,
  encoders,         \* the module-level list of live encoders
  handlers,         \* the client's message/disconnect/error handlers are set
  files,            \* the files on disk
  writes,           \* frame writes in flight (fs.writeFile callbacks pending)
  sideWrites,       \* timestamp/audio writes in flight
  runs,             \* the pipeline runs begun on this connection
  registry,         \* files registered with server.addFile
  sent,             \* frame acks and terminal events delivered to the client
  effects,          \* what the last step did, in order
  ncmds,            \* commands received so far
  received,         \* the side-channel commands received so far
  title, sanitized, \* an argument of safeName and the value it returned
  peer              \* another session: its id, its title and its name

vars == <<options, count, name, frames, numWriting, numErrors, ended,
          framerate, extension, codec, connected, ffmpegArguments,
          encoders, handlers, files, writes, sideWrites, runs, registry,
          sent, effects, ncmds, received, title, sanitized, peer>>

\* the closure state of one VideoEncoder, as one value
St ==
  [options |-> options, count |-> count, name |-> name, frames |-> frames,
   numWriting |-> numWriting, numErrors |-> numErrors, ended |-> ended,
   framerate |-> framerate, extension |-> extension, codec |-> codec,
   connected |-> connected, ffmpegArguments |-> ffmpegArguments,
   encoders |-> encoders, handlers |-> handlers, files |-> files,
   writes |-> writes, sideWrites |-> sideWrites, runs |-> runs,
   registry |-> registry, sent |-> sent, effects |-> <<>>,
   ncmds |-> ncmds, received |-> received]

Commit(s) ==
  /\ options' = s.options
  /\ count' = s.count
  /\ name' = s.name
  /\ frames' = s.frames
  /\ numWriting' = s.numWriting
  /\ numErrors' = s.numErrors
  /\ ended' = s.ended
  /\ framerate' = s.framerate
  /\ extension' = s.extension
  /\ codec' = s.codec
  /\ connected' = s.connected
  /\ ffmpegArguments' = s.ffmpegArguments
  /\ encoders' = s.encoders
  /\ handlers' = s.handlers
  /\ files' = s.files
  /\ writes' = s.writes
  /\ sideWrites' = s.sideWrites
  /\ runs' = s.runs
  /\ registry' = s.registry
  /\ sent' = s.sent
  /\ effects' = s.effects
  /\ ncmds' = s.ncmds
  /\ received' = s.received
  /\ UNCHANGED <<title, sanitized, peer>>

Did(s, e) == [s EXCEPT !.effects = Append(@, e)]

\* ------------------------------------------------------------ file system
\* utils.deleteNoFail: removes the file if it is there, never raises
deleteNoFail(s, f) == [s EXCEPT !.files = @ \ {f}]

Range(q) == {q[i] : i \in DOMAIN q}

\* ------------------------------------------------- cleanup, disconnect, send
cleanup(s) ==
  LET s1 == IF Len(s.frames) # 0 /\ ~s.options.keepFrames
            THEN [s EXCEPT !.files = @ \ Range(s.frames), !.frames = <<>>]
            ELSE s
      dir == s.options.videoDir
      gone == {TsFile(dir, s.name), VfrFile(dir, s.name), CfrFile(dir, s.name),
               AudioFile(dir, s.name), Join(dir, Str(s.name) \o DotMp4)}
  IN Did([s1 EXCEPT !.files = @ \ gone], "cleanup")

\* Array.prototype.indexOf, 0-based, -1 when absent
indexOf(q, x) ==
  IF \E i \in DOMAIN q : q[i] = x
  THEN (CHOOSE i \in DOMAIN q : q[i] = x /\ \A j \in 1..(i-1) : q[j] # x) - 1
  ELSE -1

\* Array.prototype.splice(ndx, 1): a negative ndx counts from the end
splice1(q, ndx) ==
  LET start == IF ndx < 0 THEN (IF Len(q) + ndx < 0 THEN 0 ELSE Len(q) + ndx) ELSE Min(ndx, Len(q))
  IN [i \in 1..(IF start < Len(q) THEN Len(q) - 1 ELSE Len(q)) |->
        IF i <= start THEN q[i] ELSE q[i + 1]]

disconnect(s) ==
  LET s1 == Did([s EXCEPT !.connected = FALSE,
                          !.encoders = splice1(@, indexOf(@, Self))], "disconnect")
      s2 == cleanup(s1)
  IN [s2 EXCEPT !.handlers = FALSE]

\* a message {cmd, data}: text tells the events of one cmd apart ("result"
\* is the error event that carries an encoder's result)
Msg(cmd, text, frameNum) == [cmd |-> cmd, text |-> text, frameNum |-> frameNum]

\* The client's inbox counts the messages delivered; progress events, which
\* can repeat without bound, show in effects only.
Deliver(inbox, msg) ==
  IF msg.cmd # "progress"
  THEN [m \in DOMAIN inbox \cup {msg} |->
          IF m \in DOMAIN inbox THEN inbox[m] + (IF m = msg THEN 1 ELSE 0) ELSE 1]
  ELSE inbox

\* send: client.send(msg) either delivers the message or throws
send(s, msg, ok) ==
  IF ok
  THEN Did([s EXCEPT !.sent = Deliver(@, msg)], "send:" \o msg.text)
  ELSE disconnect(Did(s, "throw:" \o msg.text))

sendCmd(s, cmd, text, frameNum, ok) == send(s, Msg(cmd, text, frameNum), ok)

\* ------------------------------------------------------------------- start
\* data.name || "untitled", data.framerate || 30, data.extension || ".mp4"
Or(v, default) == IF v = Undefined THEN default ELSE v

\* (mutant) start without the check that no video is in progress
handleStart_Restarts(s, data, ok) ==
  [s EXCEPT !.framerate = IF data.framerate = 0 THEN DefaultFramerate ELSE data.framerate,
            !.extension = safeName(Or(data.extension, DotMp4)),
            !.codec = data.codec, !.count = 0, !.numErrors = 0, !.ended = FALSE,
            !.name = safeName(Or(data.name, Untitled) \o <<"-">> \o Id),
            !.frames = <<>>]

\* (mutant) start that takes ffmpegArguments whatever the server option
handleStart_IgnoresPolicy(s, data, ok) ==
  IF s.name # Undefined
  THEN sendCmd(s, "error", "video already in progress", -1, ok)
  ELSE [s EXCEPT !.framerate = IF data.framerate = 0 THEN DefaultFramerate
                               ELSE data.framerate,
                 !.extension = safeName(Or(data.extension, DotMp4)),
                 !.codec = data.codec, !.ffmpegArguments = data.ffmpegArguments,
                 !.count = 0, !.numErrors = 0, !.ended = FALSE,
                 !.name = safeName(Or(data.name, Untitled) \o <<"-">> \o Id),
                 !.frames = <<>>]

handleStart(s, data, ok) ==
  IF s.name # Undefined
  THEN sendCmd(s, "error", "video already in progress", -1, ok)
  ELSE
    LET s1 == [s EXCEPT !.framerate = IF data.framerate = 0 THEN DefaultFramerate
                                       ELSE data.framerate,
                        !.extension = safeName(Or(data.extension, DotMp4)),
                        !.codec = data.codec]
        begin(t) == [t EXCEPT !.count = 0, !.numErrors = 0, !.ended = FALSE,
                              !.name = safeName(Or(data.name, Untitled) \o <<"-">> \o Id),
                              !.frames = <<>>]
    IN IF s.options.allowArbitraryFfmpegArguments
       THEN begin([s1 EXCEPT !.ffmpegArguments = data.ffmpegArguments])
       ELSE IF data.ffmpegArguments # Undefined
            THEN sendCmd(s1, "error", "ffmpegArguments not allowed", -1, ok)
            ELSE begin(s1)

\* ---------------------------------------------------------------- pipeline
\* A run is one pass through checkForEnd's chain.  stage 1..4: that stage's
\* process is running; 5: server.addFile is pending; 0: the chain has ended.
\* failed: the stages of the run that terminated with failure.
NoPath == <<>>

handleFFMpegError(s, i, ok) ==
  LET s1 == [s EXCEPT !.runs[i].stage = 0, !.runs[i].result = "error"]
      s2 == sendCmd(s1, "error", "result", -1, ok)
      s3 == cleanup(s2)
  IN [s3 EXCEPT !.name = Undefined]

\* frameNum / frames.length: a quotient, or Infinity or NaN when the divisor
\* is zero
Quotient(a, b) ==
  IF b = 0 THEN (IF a = 0 THEN "NaN" ELSE "Infinity")
  ELSE ToString(a) \o "/" \o ToString(b)

handleFFMpegFrame(s, frameNum, ok) ==
  sendCmd(Did(s, "progress=" \o Quotient(frameNum, Len(s.frames))),
          "progress", "progress", frameNum, ok)

\* the encoder arguments of stage 1
Stage1Args(s) ==
  [framerate |-> s.framerate,
   vcodec |-> IF s.codec # Undefined THEN s.codec
              ELSE IF s.extension = DotMp4 THEN <<"libx264">> ELSE Undefined,
   extra |-> s.ffmpegArguments]

\* (mutant) the end condition without the pending-write counter
checkForEnd_IgnoresWrites(s) ==
  IF s.ended
  THEN LET videoname == Join(s.options.videoDir, Str(s.name) \o s.extension)
           run == [stage |-> 1, videoname |-> videoname, pattern |-> Str(s.name),
                   inp |-> {}, out |-> videoname, failed |-> {}, result |-> "none",
                   args |-> Stage1Args(s), added |-> NoPath]
       IN Did([s EXCEPT !.runs = Append(@, run)], "spawn1")
  ELSE s

checkForEnd(s) ==
  IF s.ended /\ s.numWriting = 0
  THEN LET videoname == Join(s.options.videoDir, Str(s.name) \o s.extension)
           run == [stage |-> 1, videoname |-> videoname, pattern |-> Str(s.name),
                   inp |-> {}, out |-> videoname, failed |-> {}, result |-> "none",
                   args |-> Stage1Args(s), added |-> NoPath]
       IN Did([s EXCEPT !.runs = Append(@, run)], "spawn1")
  ELSE s

createVfrVideo(s, i) ==
  LET dir == s.options.frameDir
  IN Did([s EXCEPT !.runs[i].stage = 2,
                   !.runs[i].inp = {TsFile(dir, s.name), s.runs[i].videoname},
                   !.runs[i].out = VfrFile(dir, s.name)], "spawn2")

createCfrVideo(s, i) ==
  LET dir == s.options.frameDir
  IN Did([s EXCEPT !.runs[i].stage = 3,
                   !.runs[i].inp = {VfrFile(dir, s.name), AudioFile(dir, s.name)},
                   !.runs[i].out = CfrFile(dir, s.name)], "spawn3")

createFinalVideo(s, i) ==
  LET dir == s.options.frameDir
  IN Did([s EXCEPT !.runs[i].stage = 4,
                   !.runs[i].inp = {CfrFile(dir, s.name)},
                   !.runs[i].out = FinalFile(dir, s.name)], "spawn4")

\* stage 4's 'done' handler: server.addFile(...) is called, its promise pending
finalDone(s, i) ==
  Did([s EXCEPT !.runs[i].stage = 5,
                !.runs[i].added = FinalFile(s.options.frameDir, s.name)], "addFile")

\* (mutant) cleanup before the end event
addFileThen_CleanupFirst(s, i, ok) ==
  LET s1 == [s EXCEPT !.runs[i].stage = 0, !.runs[i].result = "end",
                      !.registry = @ \cup {s.runs[i].added}]
  IN sendCmd(cleanup(s1), "end", "end", -1, ok)

\* the promise resolved: .then(function(fileInfo) { sendCmd("end"); cleanup() })
addFileThen(s, i, ok) ==
  LET s1 == [s EXCEPT !.runs[i].stage = 0, !.runs[i].result = "end",
                      !.registry = @ \cup {s.runs[i].added}]
  IN cleanup(sendCmd(s1, "end", "end", -1, ok))

\* the promise rejected: .catch logs and rethrows
addFileCatch(s, i) ==
  Did([s EXCEPT !.runs[i].stage = 0, !.runs[i].result = "rejected"], "throw e")

\* ------------------------------------------------------------------ frames
\* (mutant) the frame index is taken before the header is looked at
handleFrame_CountsBadFrame(s, data, ok) ==
  IF s.name = Undefined
  THEN sendCmd(s, "error", "video not started", -1, ok)
  ELSE IF data.dataURL[1] # EXPECTED_HEADER
       THEN [s EXCEPT !.count = @ + 1]
       ELSE LET frameNum == s.count
                filename == FrameFile(s.options, s.name, frameNum)
                same == {x \in s.writes : x.frameNum = frameNum /\ x.filename = filename}
                w == [frameNum |-> frameNum, filename |-> filename,
                      nth |-> Cardinality(same)]
            IN Did([s EXCEPT !.count = @ + 1, !.numWriting = @ + 1,
                             !.writes = @ \cup {w}], "writeFile")

handleFrame(s, data, ok) ==
  IF s.name = Undefined
  THEN sendCmd(s, "error", "video not started", -1, ok)
  ELSE IF data.dataURL[1] # EXPECTED_HEADER
       THEN s
       ELSE LET frameNum == s.count
                filename == FrameFile(s.options, s.name, frameNum)
                same == {x \in s.writes : x.frameNum = frameNum /\ x.filename = filename}
                w == [frameNum |-> frameNum, filename |-> filename,
                      nth |-> Cardinality(same)]
            IN Did([s EXCEPT !.count = @ + 1, !.numWriting = @ + 1,
                             !.writes = @ \cup {w}], "writeFile")

\* (mutant) a failed write gives its index back
writeCallback_ReusesIndex(s, w, err, ok) ==
  LET s1 == [s EXCEPT !.numWriting = @ - 1, !.writes = @ \ {w}]
      tail(t) == IF t.numWriting = 0 THEN checkForEnd(t) ELSE t
  IN IF err
     THEN tail(Did([s1 EXCEPT !.numErrors = @ + 1, !.count = @ - 1], "console.error"))
     ELSE LET s2 == [s1 EXCEPT !.files = @ \cup {w.filename}]
          IN IF ~s2.connected
             THEN deleteNoFail(s2, w.filename)
             ELSE tail(sendCmd([s2 EXCEPT !.frames = Append(@, w.filename)],
                               "frame", "frame", w.frameNum, ok))

\* (mutant) a write that completes after disconnect is kept like any other
writeCallback_KeepsLateFrame(s, w, err, ok) ==
  LET s1 == [s EXCEPT !.numWriting = @ - 1, !.writes = @ \ {w}]
      tail(t) == IF t.numWriting = 0 THEN checkForEnd(t) ELSE t
  IN IF err
     THEN tail(Did([s1 EXCEPT !.numErrors = @ + 1], "console.error"))
     ELSE LET s2 == [s1 EXCEPT !.files = @ \cup {w.filename}]
          IN tail(sendCmd([s2 EXCEPT !.frames = Append(@, w.filename)],
                          "frame", "frame", w.frameNum, ok))

\* (mutant) a written frame is put at the head of frames
writeCallback_Prepends(s, w, err, ok) ==
  LET s1 == [s EXCEPT !.numWriting = @ - 1, !.writes = @ \ {w}]
      tail(t) == IF t.numWriting = 0 THEN checkForEnd(t) ELSE t
  IN IF err
     THEN tail(Did([s1 EXCEPT !.numErrors = @ + 1], "console.error"))
     ELSE LET s2 == [s1 EXCEPT !.files = @ \cup {w.filename}]
          IN IF ~s2.connected
             THEN deleteNoFail(s2, w.filename)
             ELSE tail(sendCmd([s2 EXCEPT !.frames = <<w.filename>> \o @],
                               "frame", "frame", w.frameNum, ok))

\* the fs.writeFile callback of frame write w
writeCallback(s, w, err, ok) ==
  LET s1 == [s EXCEPT !.numWriting = @ - 1, !.writes = @ \ {w}]
      tail(t) == IF t.numWriting = 0 THEN checkForEnd(t) ELSE t
  IN IF err
     THEN tail(Did([s1 EXCEPT !.numErrors = @ + 1], "console.error"))
     ELSE LET s2 == [s1 EXCEPT !.files = @ \cup {w.filename}]
          IN IF ~s2.connected
             THEN deleteNoFail(s2, w.filename)
             ELSE tail(sendCmd([s2 EXCEPT !.frames = Append(@, w.filename)],
                               "frame", "frame", w.frameNum, ok))

handleEnd(s, ok) ==
  IF s.name = Undefined
  THEN sendCmd(s, "error", "video not started", -1, ok)
  ELSE checkForEnd([s EXCEPT !.ended = TRUE])

\* ----------------------------------------------------------- side channels
handleTimestamps(s) ==
  Did([s EXCEPT !.sideWrites = @ \cup {TsFile(s.options.frameDir, s.name)}], "writeFile")

handleAudioFile(s) ==
  Did([s EXCEPT !.sideWrites = @ \cup {AudioFile(s.options.frameDir, s.name)}], "writeFile")

sideCallback(s, f, err) ==
  LET s1 == [s EXCEPT !.sideWrites = @ \ {f}]
  IN IF err THEN s1 ELSE [s1 EXCEPT !.files = @ \cup {f}]

\* ----------------------------------------------------------------- inputs
\* start payloads of one client, which names its captures "a/": the other
\* fields left to their defaults, or every field given
Title == <<"a","/">>

StartPayloads ==
  {[name |-> Title, framerate |-> 0, extension |-> Undefined,
    codec |-> Undefined, ffmpegArguments |-> Undefined],
   [name |-> Title, framerate |-> 60, extension |-> DotWebm,
    codec |-> <<"mpeg4">>, ffmpegArguments |-> <<"-crf">>]}

\* frame payloads: a PNG data URL, and one with another header
FramePayloads ==
  {[dataURL |-> <<EXPECTED_HEADER, "iVBOR">>],
   [dataURL |-> <<"data:image/jpeg;base64,", "/9j/4">>]}

\* server options: the defaults (one output folder); --frame-dir and
\* --video-dir apart; --keep-frames; --allow-arbitrary-ffmpeg-arguments
Options(videoDir, keepFrames, allow) ==
  [frameDir |-> "frames", videoDir |-> videoDir, keepFrames |-> keepFrames,
   allowArbitraryFfmpegArguments |-> allow]

OptionSets ==
  {Options("frames", FALSE, FALSE), Options("videos", FALSE, FALSE),
   Options("frames", TRUE, FALSE), Options("frames", FALSE, TRUE)}

\* ------------------------------------------------------------------- Init
\* The constructor: handlers set, sendCmd("start", {}), encoders.push(this).
\* Another session's encoder is already in the list.
NoPeer == [id |-> <<"2">>, title |-> Undefined, name |-> Undefined]

Fresh(o) ==
  [options |-> o, count |-> 0, name |-> Undefined, frames |-> <<>>,
   numWriting |-> 0, numErrors |-> 0, ended |-> FALSE,
   framerate |-> DefaultFramerate, extension |-> DotMp4, codec |-> Undefined,
   connected |-> TRUE, ffmpegArguments |-> Undefined,
   encoders |-> <<Other>>, handlers |-> TRUE, files |-> {},
   writes |-> {}, sideWrites |-> {}, runs |-> <<>>,
   registry |-> {}, sent |-> <<>>, effects |-> <<>>, ncmds |-> 0,
   received |-> {}]

construct(o, ok) ==
  LET s == sendCmd(Fresh(o), "start", "start", -1, ok)
  IN [s EXCEPT !.encoders = Append(@, Self)]

Init ==
  \E o \in OptionSets : \E ok \in BOOLEAN :
    LET s == construct(o, ok)
    IN /\ options = s.options /\ count = s.count /\ name = s.name
       /\ frames = s.frames /\ numWriting = s.numWriting
       /\ numErrors = s.numErrors /\ ended = s.ended
       /\ framerate = s.framerate /\ extension = s.extension
       /\ codec = s.codec /\ connected = s.connected
       /\ ffmpegArguments = s.ffmpegArguments /\ encoders = s.encoders
       /\ handlers = s.handlers /\ files = s.files /\ writes = s.writes
       /\ sideWrites = s.sideWrites /\ runs = s.runs
       /\ registry = s.registry /\ sent = s.sent /\ effects = s.effects
       /\ ncmds = s.ncmds /\ received = s.received
       /\ title = Undefined /\ sanitized = Undefined /\ peer = NoPeer

\* ----------------------------------------------------------------- actions
\* a command arrives: onMessage dispatches it while the handler is set
CanReceive == handlers /\ ncmds < MaxCmds

SideCmds == {"timestamps", "audiofile"}

\* what is noted of a command: that a side-channel command came, and
\* whether it came after end
SideTags(cmd) ==
  IF cmd \in SideCmds
  THEN (IF ended THEN {cmd, cmd \o " after end"} ELSE {cmd})
  ELSE {}

Receive(cmd) ==
  Did([St EXCEPT !.ncmds = @ + 1, !.received = @ \cup SideTags(cmd)], cmd)

Start ==
  /\ CanReceive
  /\ \E data \in StartPayloads : \E ok \in BOOLEAN :
       Commit(handleStart(Receive("start"), data, ok))

Frame ==
  /\ CanReceive
  /\ \E data \in FramePayloads : \E ok \in BOOLEAN :
       Commit(handleFrame(Receive("frame"), data, ok))

End ==
  /\ CanReceive
  /\ \E ok \in BOOLEAN :
       Commit(handleEnd(Receive("end"), ok))

Timestamps ==
  /\ CanReceive
  /\ TsFile(options.frameDir, name) \notin sideWrites
  /\ Commit(handleTimestamps(Receive("timestamps")))

Audio ==
  /\ CanReceive
  /\ AudioFile(options.frameDir, name) \notin sideWrites
  /\ Commit(handleAudioFile(Receive("audiofile")))

\* a frame write finishes, with or without an error
WriteDone ==
  \E w \in writes : \E err \in BOOLEAN : \E ok \in BOOLEAN :
    Commit(writeCallback(Did(St, "written"), w, err, ok))

SideWriteDone ==
  \E f \in sideWrites : \E err \in BOOLEAN :
    Commit(sideCallback(Did(St, "sidewritten"), f, err))

OnDisconnect == handlers /\ Commit(disconnect(Did(St, "ondisconnect")))

OnError == handlers /\ Commit(disconnect(Did(St, "onerror")))

\* --- the external processes, each with one outcome: success, which leaves
\* the output file, or failure, before which the process may have written
\* its output file in part.
Running(k) == {i \in DOMAIN runs : runs[i].stage = k}

Succeeded(s, i) == [s EXCEPT !.files = @ \cup {s.runs[i].out}]

Failed(s, i, partial) ==
  [s EXCEPT !.runs[i].failed = @ \cup {s.runs[i].stage},
            !.files = IF partial THEN @ \cup {s.runs[i].out} ELSE @]

Stage1Frame ==
  \E i \in Running(1) : \E frameNum \in 1..2 : \E ok \in BOOLEAN :
    Commit(handleFFMpegFrame(Did(St, "frame1"), frameNum, ok))

Stage1Done ==
  \E i \in Running(1) :
    Commit(createVfrVideo(Succeeded(Did(St, "done1"), i), i))

Stage1Error ==
  \E i \in Running(1) : \E partial \in BOOLEAN : \E ok \in BOOLEAN :
    Commit(handleFFMpegError(Failed(Did(St, "error1"), i, partial), i, ok))

Stage2Close ==
  \E i \in Running(2) :
    \/ Commit(createCfrVideo(Succeeded(Did(St, "close2:0"), i), i))
    \/ \E partial \in BOOLEAN :
         Commit(createCfrVideo(Failed(Did(St, "close2:1"), i, partial), i))

Stage3Close ==
  \E i \in Running(3) :
    \/ Commit(createFinalVideo(Succeeded(Did(St, "close3:0"), i), i))
    \/ \E partial \in BOOLEAN :
         Commit(createFinalVideo(Failed(Did(St, "close3:1"), i, partial), i))

Stage4Frame ==
  \E i \in Running(4) : \E frameNum \in 1..2 : \E ok \in BOOLEAN :
    Commit(handleFFMpegFrame(Did(St, "frame4"), frameNum, ok))

Stage4Done ==
  \E i \in Running(4) :
    Commit(finalDone(Succeeded(Did(St, "done4"), i), i))

Stage4Error ==
  \E i \in Running(4) : \E partial \in BOOLEAN : \E ok \in BOOLEAN :
    Commit(handleFFMpegError(Failed(Did(St, "error4"), i, partial), i, ok))

AddFileResolved ==
  \E i \in Running(5) : \E ok \in BOOLEAN :
    Commit(addFileThen(Did(St, "resolved"), i, ok))

AddFileRejected ==
  \E i \in Running(5) : Commit(addFileCatch(Did(St, "rejected"), i))

Next ==
  \/ Start \/ Frame \/ End \/ Timestamps \/ Audio
  \/ WriteDone \/ SideWriteDone
  \/ OnDisconnect \/ OnError
  \/ Stage1Frame \/ Stage1Done \/ Stage1Error
  \/ Stage2Close \/ Stage3Close
  \/ Stage4Frame \/ Stage4Done \/ Stage4Error
  \/ AddFileResolved \/ AddFileRejected

Spec == Init /\ [][Next]_vars

\* ----------------------------------------------------- safeName on its own
\* titles of every length up to MaxTitle, made of two alternating characters
\* taken from inside and outside the class [0-9a-zA-Z-.]
TitleChars == {"a", "Z", "0", "-", ".", "_", "/", " ", "%"}

Pattern(c, d, n) == [i \in 1..n |-> IF i % 2 = 1 THEN c ELSE d]

Titles == {Pattern(c, d, n) : c \in TitleChars, d \in TitleChars, n \in 0..MaxTitle}

InitSafeName ==
  LET s == Fresh(Options("frames", FALSE, FALSE))
  IN /\ options = s.options /\ count = s.count /\ name = s.name
     /\ frames = s.frames /\ numWriting = s.numWriting
     /\ numErrors = s.numErrors /\ ended = s.ended
     /\ framerate = s.framerate /\ extension = s.extension
     /\ codec = s.codec /\ connected = s.connected
     /\ ffmpegArguments = s.ffmpegArguments /\ encoders = s.encoders
     /\ handlers = s.handlers /\ files = s.files /\ writes = s.writes
     /\ sideWrites = s.sideWrites /\ runs = s.runs
     /\ registry = s.registry /\ sent = s.sent /\ effects = s.effects
     /\ ncmds = s.ncmds /\ received = s.received
     /\ title \in Titles /\ sanitized = Undefined /\ peer = NoPeer

Sanitize ==
  /\ effects = <<>>
  /\ sanitized' = safeName(title)
  /\ effects' = <<"safeName">>
  /\ UNCHANGED <<options, count, name, frames, numWriting, numErrors, ended,
                 framerate, extension, codec, connected, ffmpegArguments,
                 encoders, handlers, files, writes, sideWrites, runs, registry,
                 sent, ncmds, received, title, peer>>

NextSafeName == Sanitize

SpecSafeName == InitSafeName /\ [][NextSafeName]_vars

\* --------------------------------------------- the names of two sessions
\* name = safeName((data.name || "untitled") + "-" + id)
sessionName(dataName, id) == safeName(Or(dataName, Untitled) \o <<"-">> \o id)

\* the ids the server gives to other connections
PeerIds == {<<"2">>, <<"1", "0">>}

NameTitles == {Pattern(c, d, n) : c \in {"a", "/"}, d \in {"a", "/"}, n \in 0..MaxTitle}

InitNames ==
  LET s == Fresh(Options("frames", FALSE, FALSE))
  IN /\ options = s.options /\ count = s.count /\ name = s.name
     /\ frames = s.frames /\ numWriting = s.numWriting
     /\ numErrors = s.numErrors /\ ended = s.ended
     /\ framerate = s.framerate /\ extension = s.extension
     /\ codec = s.codec /\ connected = s.connected
     /\ ffmpegArguments = s.ffmpegArguments /\ encoders = s.encoders
     /\ handlers = s.handlers /\ files = s.files /\ writes = s.writes
     /\ sideWrites = s.sideWrites /\ runs = s.runs
     /\ registry = s.registry /\ sent = s.sent /\ effects = s.effects
     /\ ncmds = s.ncmds /\ received = s.received
     /\ title \in NameTitles /\ sanitized = Undefined
     /\ \E i \in PeerIds : \E t \in NameTitles :
          peer = [id |-> i, title |-> t, name |-> Undefined]

\* both sessions start: each derives its name from its title and its id
DeriveNames ==
  /\ effects = <<>>
  /\ sanitized' = sessionName(title, Id)
  /\ peer' = [peer EXCEPT !.name = sessionName(peer.title, peer.id)]
  /\ effects' = <<"names">>
  /\ UNCHANGED <<options, count, name, frames, numWriting, numErrors, ended,
                 framerate, extension, codec, connected, ffmpegArguments,
                 encoders, handlers, files, writes, sideWrites, runs, registry,
                 sent, ncmds, received, title>>

NextNames == DeriveNames

SpecNames == InitNames /\ [][NextNames]_vars

\* ================================================================= claims
\* what the last step was, and what it did
Label == IF effects = <<>> THEN "none" ELSE effects[1]
Has(e) == \E k \in DOMAIN effects : effects[k] = e
Sent(msg) == IF msg \in DOMAIN sent THEN sent[msg] ELSE 0
Before(a, b) ==
  \E j, k \in DOMAIN effects : j < k /\ effects[j] = a /\ effects[k] = b
Times(e) == Cardinality({k \in DOMAIN effects : effects[k] = e})

AlreadyInProgress == "video already in progress"
NotStarted == "video not started"

\* ---------------------------------------------------------------------- C1
\* C1: stage 1 is spawned only by an end command or a write completion, and
\* only with ended set and numWriting zero; an accepted end command spawns it
\* exactly when no write is pending; and for a connected session the write
\* completion that brings numWriting to zero after end spawns it.
C1_AssemblyIffEndAndNoWrites ==
  /\ Has("spawn1") => /\ ended /\ numWriting = 0
                      /\ Label \in {"end", "written"}
                      /\ Times("spawn1") = 1
  /\ (Label = "end" /\ ~Has("send:" \o NotStarted) /\ ~Has("throw:" \o NotStarted))
       => (ended /\ (Has("spawn1") <=> numWriting = 0))
  /\ (Label = "written" /\ connected /\ ended /\ numWriting = 0) => Has("spawn1")

\* end came while a write was pending, and the last completion began assembly
C1_Witness == Label = "written" /\ Has("spawn1") /\ connected /\ Len(frames) > 0

\* ---------------------------------------------------------------------- C2
\* C2: a run in which a stage has failed is over: no later stage of it is
\* running and no registration of its output is pending.
C2_FailureAbortsRun ==
  \A i \in DOMAIN runs : runs[i].failed # {} => runs[i].stage = 0

\* ---------------------------------------------------------------------- C3
\* C3: server.addFile is called for a run only if no stage of the run failed.
C3_NoPartialArtifact ==
  \A i \in DOMAIN runs : runs[i].added # NoPath => runs[i].failed = {}

\* ---------------------------------------------------------------------- C4
\* C4: in a connected session the step in which a stage fails sends exactly
\* one error event, before cleanup, and leaves the name cleared.
StageFailed == Label \in {"error1", "close2:1", "close3:1", "error4"}

C4_OneErrorThenCleanup ==
  (StageFailed /\ connected)
    => /\ Times("send:result") = 1
       /\ Times("cleanup") = 1
       /\ Before("send:result", "cleanup")
       /\ name = Undefined

\* ---------------------------------------------------------------------- C5
\* C5: in a connected session, right after a stage failure has been handled,
\* no final file and no intermediate file of a failed run is left where it
\* was created.
Leftovers(i) ==
  LET n == runs[i].pattern
      dir == options.frameDir
  IN files \cap {TsFile(dir, n), VfrFile(dir, n), CfrFile(dir, n),
                 AudioFile(dir, n), runs[i].videoname, FinalFile(dir, n)}

C5_NothingLeftAfterFailure ==
  (Label \in {"error1", "error4"} /\ connected)
    => \A i \in DOMAIN runs : runs[i].result = "error" => Leftovers(i) = {}

\* ---------------------------------------------------------------------- C6
\* C6: in a connected session the step that completes a run registers the
\* final file, then sends one end event, then cleans up; and when the capture
\* was N frames, all written, followed by end, the client has one ack for
\* each of the N frames and one end event.
C6_SuccessOrder ==
  (Label = "resolved" /\ connected)
    => /\ effects = <<"resolved", "send:end", "cleanup">>
       /\ \E i \in DOMAIN runs : runs[i].result = "end" /\ runs[i].added \in registry
       /\ (Len(runs) = 1 /\ numWriting = 0 /\ numErrors = 0)
            => /\ Sent(Msg("end", "end", -1)) = 1
               /\ \A k \in 0..(count - 1) : Sent(Msg("frame", "frame", k)) = 1
               /\ \A m \in DOMAIN sent : m.cmd = "frame" => m.frameNum < count

C6_Witness ==
  /\ Label = "resolved" /\ connected /\ Len(runs) = 1
  /\ numWriting = 0 /\ numErrors = 0 /\ count = 1

\* ---------------------------------------------------------------------- C7
\* C7: a start that arrives after a capture completed (every stage of its
\* one run succeeded, its end event sent, nothing being written) is not
\* answered with the already-in-progress error.
Done ==
  /\ name # Undefined /\ ended /\ numWriting = 0 /\ connected
  /\ Len(runs) = 1 /\ runs[1].result = "end" /\ runs[1].failed = {}

C7_StartAcceptedWhenDone ==
  [][(Done /\ effects'[1] = "start" /\ connected')
       => \A k \in DOMAIN effects' : effects'[k] # "send:" \o AlreadyInProgress]_vars

\* ---------------------------------------------------------------------- C8
\* C8: a start that arrives while name is set is answered with the
\* already-in-progress error and, the answer delivered, leaves every field
\* of the session as it was.
C8_SecondStartChangesNothing ==
  [][(name # Undefined /\ effects'[1] = "start" /\ connected')
       => /\ effects' = <<"start", "send:" \o AlreadyInProgress>>
          /\ UNCHANGED <<name, count, frames, numErrors, ended, framerate,
                         extension, codec, ffmpegArguments, numWriting>>]_vars

C8_Witness ==
  /\ Label = "start" /\ Has("send:" \o AlreadyInProgress)
  /\ count > 0 /\ Len(frames) > 0

\* ---------------------------------------------------------------------- C9
\* C9: a frame command starts a write and takes an index only while the
\* session is capturing (started, end not yet received).
C9_FrameOnlyWhileCapturing ==
  (Label = "frame" /\ Has("writeFile")) => (name # Undefined /\ ~ended)

\* --------------------------------------------------------------------- C10
\* C10: an accepted frame takes the index count and raises count by one, at
\* receipt; an accepted start sets count to zero; no other step, a write
\* completion or failure included, changes count.  So the indices given
\* out between two accepted starts are 0, 1, 2, ... in order of arrival.
AcceptedFrame == effects'[1] = "frame" /\ \E k \in DOMAIN effects' : effects'[k] = "writeFile"
AcceptedStart == effects'[1] = "start" /\ name = Undefined /\ name' # Undefined

C10_IndicesIncrease ==
  [][/\ AcceptedFrame
        => /\ count' = count + 1
           /\ \E w \in writes' : w.frameNum = count /\ writes' = writes \cup {w}
           /\ \A w \in writes : w \in writes'
     /\ AcceptedStart => count' = 0
     /\ (~AcceptedFrame /\ ~AcceptedStart) => count' = count]_vars

\* two indices were given out though the first frame's write failed
C10_Witness == count = 2 /\ numErrors = 1 /\ Label = "frame" /\ Has("writeFile")

\* --------------------------------------------------------------------- C11
\* C11: in a started session a frame command whose payload does not begin
\* with the expected header does nothing: no message is sent, count,
\* numWriting, frames, the files and the writes in flight are as before, the
\* session stays connected with its handlers set, and a well-formed frame
\* that comes next is accepted with the index the dropped frame did not take.
PngPayload == CHOOSE d \in FramePayloads : d.dataURL[1] = EXPECTED_HEADER

C11_BadFrameDropped ==
  \A data \in FramePayloads : \A ok \in BOOLEAN :
    (CanReceive /\ name # Undefined /\ data.dataURL[1] # EXPECTED_HEADER)
      => LET t == handleFrame(Receive("frame"), data, ok)
             u == handleFrame([t EXCEPT !.effects = <<"frame">>], PngPayload, TRUE)
         IN /\ t.effects = <<"frame">>
            /\ t.sent = sent /\ t.count = count /\ t.numWriting = numWriting
            /\ t.frames = frames /\ t.files = files /\ t.writes = writes
            /\ t.connected = connected /\ t.handlers = handlers /\ t.name = name
            /\ u.numWriting = numWriting + 1 /\ u.count = count + 1
            /\ \E w \in u.writes : w.frameNum = count /\ u.writes = writes \cup {w}

\* a frame with another header was dropped while a write was pending
C11_Witness ==
  /\ effects = <<"frame">> /\ name # Undefined
  /\ numWriting = 1 /\ count = 1 /\ connected

\* --------------------------------------------------------------------- C12
\* C12: a frame write that completes without error after the session was
\* disconnected leaves no file behind: its file is not on disk afterwards,
\* no file is added, frames is as before and nothing is sent.
C12_LateWritesDeleted ==
  [][(~connected /\ effects'[1] = "written"
        /\ \A k \in DOMAIN effects' : effects'[k] # "console.error")
       => /\ \A w \in writes \ writes' : w.filename \notin files'
          /\ files' \subseteq files
          /\ frames' = frames
          /\ sent' = sent]_vars

\* two writes were pending at the disconnect and the first has completed
C12_Witness == effects = <<"written">> /\ ~connected /\ numWriting = 1

\* --------------------------------------------------------------------- C13
\* C13: the list of live encoders holds the other session's encoder always,
\* and this session's encoder exactly while this session is connected.
C13_RemovedExactlyOnce ==
  encoders = IF connected THEN <<Other, Self>> ELSE <<Other>>

\* --------------------------------------------------------------------- C14
\* C14: once the session is disconnected, a step taken while a run is in
\* progress starts no stage, calls server.addFile for nothing, registers
\* nothing and sends nothing.
InProgress == \E i \in DOMAIN runs : runs[i].stage \in 1..5

C14_ResultDiscardedAfterDisconnect ==
  [][(~connected /\ InProgress)
       => /\ \A k \in DOMAIN effects' :
               effects'[k] \notin {"spawn1", "spawn2", "spawn3", "spawn4", "addFile"}
          /\ registry' = registry
          /\ sent' = sent]_vars

\* --------------------------------------------------------------------- C15
\* C15: with the allow option on, an accepted start stores the payload's
\* ffmpegArguments and stage 1 is given the stored value.  With the option
\* off, a start that carries ffmpegArguments is answered with an error
\* event and leaves name undefined, so that a frame or an end that follows
\* is answered "video not started"; it creates no file and begins no write
\* and no run; and ffmpegArguments stays undefined, in the session and in
\* the arguments of every stage 1.
NotAllowed == "ffmpegArguments not allowed"

C15_ArgumentsOnlyWhenAllowed ==
  /\ \A data \in StartPayloads : \A ok \in BOOLEAN :
       (CanReceive /\ name = Undefined)
         => LET t == handleStart(Receive("start"), data, ok)
                t0 == [t EXCEPT !.effects = <<>>]
            IN IF options.allowArbitraryFfmpegArguments
               THEN t.name # Undefined /\ t.ffmpegArguments = data.ffmpegArguments
               ELSE IF data.ffmpegArguments = Undefined
               THEN t.name # Undefined /\ t.ffmpegArguments = Undefined
               ELSE /\ t.name = Undefined /\ t.ffmpegArguments = Undefined
                    /\ t.files \subseteq files /\ t.writes = writes
                    /\ t.sideWrites = sideWrites /\ t.runs = runs
                    /\ IF ok THEN t.sent = Deliver(sent, Msg("error", NotAllowed, -1))
                             ELSE ~t.connected /\ t.sent = sent
                    /\ handleFrame(t0, PngPayload, TRUE).effects = <<"send:" \o NotStarted>>
                    /\ handleEnd(t0, TRUE).effects = <<"send:" \o NotStarted>>
  /\ ~options.allowArbitraryFfmpegArguments
       => /\ ffmpegArguments = Undefined
          /\ \A i \in DOMAIN runs : runs[i].args.extra = Undefined
  /\ Has("spawn1") => runs[Len(runs)].args.extra = ffmpegArguments

\* a start with ffmpegArguments was refused and the refusal delivered
C15_Witness ==
  /\ Label = "start" /\ Has("send:" \o NotAllowed) /\ name = Undefined
  /\ ~options.allowArbitraryFfmpegArguments /\ connected

\* --------------------------------------------------------------------- C16
\* C16: safeName returns its argument cut to the first 30 characters with
\* each character outside [0-9a-zA-Z-.] replaced by "_": the result is at
\* most 30 long, as long as the cut argument, equal to it at every place
\* that holds a character of the class and "_" elsewhere.
C16_SafeName ==
  Label = "safeName"
    => /\ Len(sanitized) <= 30
       /\ Len(sanitized) = (IF Len(title) < 30 THEN Len(title) ELSE 30)
       /\ \A i \in 1..Len(sanitized) :
            /\ sanitized[i] \in SafeChars \cup {"_"}
            /\ sanitized[i] = (IF title[i] \in SafeChars THEN title[i] ELSE "_")

\* a title longer than the limit, with characters to replace, was sanitized
C16_Witness ==
  /\ Label = "safeName" /\ Len(title) = 31 /\ Len(sanitized) = 30
  /\ title[1] = "/" /\ sanitized[1] = "_" /\ sanitized[2] = "a"

\* --------------------------------------------------------------------- C17
\* C17: mp4fpsmod (stage 2) is spawned only if a timestamps command has been
\* received, and the audio mux (stage 3) only if an audiofile command has.
C17_OptionalStagesOnlyWithInput ==
  /\ Has("spawn2") => "timestamps" \in received
  /\ Has("spawn3") => "audiofile" \in received

\* --------------------------------------------------------------------- C18
\* C18: when client.send has thrown in a step (the constructor included),
\* then at the end of the step the session is not connected, cleanup has
\* run after the throw, and the session's encoder is not in encoders.
Texts ==
  {"start", "frame", "progress", "end", "result",
   AlreadyInProgress, NotStarted, NotAllowed}

Threw == \E x \in Texts : Has("throw:" \o x)

C18_SendFailureDisconnects ==
  Threw => /\ ~connected
           /\ \E x \in Texts : Before("throw:" \o x, "cleanup")
           /\ Self \notin Range(encoders)

\* --------------------------------------------------------------------- C19
\* C19: the value of every progress event that is sent is a quotient
\* frameNum / total with total at least 1 and frameNum between 0 and total.
UnitQuotients ==
  {"progress=" \o Quotient(p[1], p[2]) :
     p \in {q \in (0..MaxCmds) \X (1..MaxCmds) : q[1] <= q[2]}}

ProgressValues ==
  {"progress=" \o Quotient(a, b) : a \in 0..MaxCmds, b \in 0..MaxCmds}

C19_ProgressInUnitInterval ==
  Has("send:progress")
    => \A k \in DOMAIN effects :
         effects[k] \in ProgressValues => effects[k] \in UnitQuotients

\* --------------------------------------------------------------------- C20
\* C20: with keepFrames off, a step that runs cleanup leaves frames empty and
\* none of the files that were recorded in frames on disk; with keepFrames
\* on, no step removes a frame file from disk, and a frame write that
\* completes without error leaves its file on disk; and cleanup run twice
\* in a row leaves the files and frames as cleanup run once.
IsFrameFile(f) ==
  Len(f[2]) >= Len(DotPng)
    /\ SubSeq(f[2], Len(f[2]) - Len(DotPng) + 1, Len(f[2])) = DotPng

RanCleanup == \E k \in DOMAIN effects' : effects'[k] = "cleanup"

C20_DeletedWhenNotKept ==
  (~options.keepFrames /\ RanCleanup)
    => frames' = <<>> /\ Range(frames) \cap files' = {}

C20_KeptWhenRetained ==
  options.keepFrames
    => /\ \A f \in files : IsFrameFile(f) => f \in files'
       /\ (effects'[1] = "written"
             /\ \A k \in DOMAIN effects' : effects'[k] # "console.error")
            => \A w \in writes \ writes' : w.filename \in files'

C20_SecondCleanupNoChange ==
  LET t == cleanup(St)
  IN cleanup(t).files = t.files /\ cleanup(t).frames = t.frames

C20_FramesDeletedUnlessKept ==
  [][C20_DeletedWhenNotKept /\ C20_KeptWhenRetained /\ C20_SecondCleanupNoChange]_vars

\* --------------------------------------------------------------------- C21
\* C21: in a session that is connected before and after the step, a frame
\* write that completes without error puts its path at the end of frames
\* and delivers one frame ack with the index the write was given at
\* receipt; a write that completes with an error adds one to numErrors,
\* leaves frames as it was and sends nothing.
WriteFailed == \E k \in DOMAIN effects' : effects'[k] = "console.error"

C21_WriteCompletion ==
  [][(connected /\ connected' /\ effects'[1] = "written")
       => \E w \in writes :
            /\ writes' = writes \ {w}
            /\ IF WriteFailed
               THEN /\ numErrors' = numErrors + 1
                    /\ frames' = frames
                    /\ sent' = sent
                    /\ \A k \in DOMAIN effects' :
                         effects'[k] \notin {"send:" \o x : x \in Texts}
                           \cup {"throw:" \o x : x \in Texts}
               ELSE /\ numErrors' = numErrors
                    /\ frames' = Append(frames, w.filename)
                    /\ sent' = Deliver(sent, Msg("frame", "frame", w.frameNum))
                    /\ Cardinality({k \in DOMAIN effects' :
                                      effects'[k] = "send:frame"}) = 1]_vars

\* the write of frame 1 completed before the write of frame 0
C21_Witness ==
  /\ Label = "written" /\ connected /\ Len(frames) = 2
  /\ frames[1] = FrameFile(options, name, 1)
  /\ frames[2] = FrameFile(options, name, 0)
  /\ Sent(Msg("frame", "frame", 0)) = 1 /\ Sent(Msg("frame", "frame", 1)) = 1

\* --------------------------------------------------------------------- C22
\* C22: a step that spawns stage 1 leaves name defined, and is taken only
\* when every run begun before it has failed: name is cleared by a failed
\* run only, so a run begun while an earlier run has not failed is a second
\* run for the same accepted start.
Spawned1 == \E k \in DOMAIN effects' : effects'[k] = "spawn1"

C22_OneAssemblyPerStart ==
  [][Spawned1
       => /\ name' # Undefined
          /\ \A i \in DOMAIN runs : runs[i].result = "error"]_vars

\* --------------------------------------------------------------------- C23
\* C23: a step that spawns stage 1 ends with the session connected.
C23_NoAssemblyAfterDisconnect == Has("spawn1") => connected

\* --------------------------------------------------------------------- C24
\* C24: while the session is connected, a capture is begun (name defined)
\* and no run has completed (the cleanups before that are a failure's, which
\* clears name, and a disconnect's), count = |frames| + numErrors +
\* numWriting; a start that the session would accept in this state leaves
\* the counters so related; and numWriting is the number of write callbacks
\* still to come, never negative.
Conserved(s) == s.count = Len(s.frames) + s.numErrors + s.numWriting

C24_CounterConservation ==
  /\ numWriting >= 0
  /\ numWriting = Cardinality(writes)
  /\ (connected /\ name # Undefined
        /\ \A i \in DOMAIN runs : runs[i].result # "end")
       => Conserved(St)
  /\ \A data \in StartPayloads :
       (handlers /\ connected /\ name = Undefined)
         => LET t == handleStart(Receive("start"), data, TRUE)
            IN t.name # Undefined => Conserved(t)

\* --------------------------------------------------------------------- C25
\* C25: two sessions with different ids derive different names, whatever
\* their titles, and so different frame, intermediate and final paths.
StemPaths(n) ==
  {FrameFile(options, n, 0), TsFile(options.frameDir, n),
   VfrFile(options.frameDir, n), CfrFile(options.frameDir, n),
   AudioFile(options.frameDir, n), FinalFile(options.frameDir, n),
   Join(options.videoDir, n \o DotMp4)}

C25_DistinctNames ==
  Label = "names"
    => /\ sanitized # peer.name
       /\ StemPaths(sanitized) \cap StemPaths(peer.name) = {}

\* --------------------------------------------------------------------- C26
\* C26: while the client is connected, every run that is over (no process
\* of it running, no callback of it to come, so that nothing more can be
\* sent for it) has ended with an end or an error event, and the client has
\* received as many such events as runs are over.
Over == {i \in DOMAIN runs : runs[i].stage = 0}

C26_OneTerminalEvent ==
  connected
    => /\ \A i \in Over : runs[i].result \in {"end", "error"}
       /\ Sent(Msg("end", "end", -1)) + Sent(Msg("error", "result", -1))
            = Cardinality(Over)

\* --------------------------------------------------------------------- C27
\* C27: when no timestamps command came after end, mp4fpsmod is spawned
\* only with no write of the timestamp file pending; when no audiofile
\* command came after end, the audio mux is spawned only with no write of
\* the audio file pending; and an end command begins assembly only with no
\* side-channel write of the capture pending.
C27_SideWritesBeforeAssembly ==
  /\ (Has("spawn2") /\ "timestamps after end" \notin received)
       => TsFile(options.frameDir, name) \notin sideWrites
  /\ (Has("spawn3") /\ "audiofile after end" \notin received)
       => AudioFile(options.frameDir, name) \notin sideWrites
  /\ (Label = "end" /\ Has("spawn1"))
       => sideWrites \cap {TsFile(options.frameDir, name),
                           AudioFile(options.frameDir, name)} = {}

====
